---- MODULE Spec2Model ----
(***************************************************************************)
(* Model of the wgpu-engine event loop (src/src/main.rs): the closure that *)
(* Engine::run hands to winit's EventLoop::run, the RenderState methods it *)
(* calls (resize, update, render) and RepaintSignal::request_repaint, run  *)
(* by producer threads against the event-loop proxy.                       *)
(*                                                                         *)
(* The windowing library is the environment.  Its contract, as documented  *)
(* by winit, is modelled by the guards of the dispatch actions: every      *)
(* iteration delivers NewEvents, then window and user events, then         *)
(* MainEventsCleared, then one RedrawRequested if a redraw was requested   *)
(* (duplicate requests are aggregated), then RedrawEventsCleared; control  *)
(* flow starts as Poll; after Exit the handler still receives              *)
(* LoopDestroyed, and possibly the events left in the running iteration.   *)
(***************************************************************************)
EXTENDS Naturals, Sequences, FiniteSets

WIDTH == 1280
HEIGHT == 720

\* Bounds of the model.
NumThreads == 2
MaxQueue == 2
MaxRepaints == 2
MaxDuration == 2

Threads == 1..NumThreads
Durations == 1..MaxDuration

PhysicalSize(w, h) == [width |-> w, height |-> h]

\* The sizes a Resized event may report.
ResizeSizes ==
    { PhysicalSize(0, 600), PhysicalSize(800, 0),
      PhysicalSize(800, 600), PhysicalSize(WIDTH, HEIGHT) }

\* The outcomes of Surface::get_current_texture.
AcquireResults == {"Ok", "Outdated", "Timeout", "Lost", "OutOfMemory"}

NoSize == PhysicalSize(0, 0)

VARIABLES
    control_flow,           \* *control_flow of the closure: "Poll" or "Exit"
    phase,                  \* where winit is in its iteration
    event,                  \* the event of the last handler invocation
    calls,                  \* the UI, GPU and window calls that invocation made
    redraw_requested,       \* the window's pending redraw request
    inner_size,             \* the window's physical size
    render_state,           \* RenderState: size, surface_config, surface, previous_ui_draw_time
    user_events,            \* RequestRedraw user events in the proxy's channel
    mutex,                  \* the holder of RepaintSignal's Mutex, 0 when free
    pc,                     \* position of each producer thread in request_repaint
    last_valid_size,        \* history: the last reported size with both dimensions > 0
    repaints,               \* history: successful sends since the last redraw
    scenario,               \* history: progress through 1280x720, 0x600, 800x600, acquire, acquire
    called_after_exit       \* history: an invocation entered with Exit set made a UI or GPU call

vars ==
    << control_flow, phase, event, calls, redraw_requested, inner_size,
       render_state, user_events, mutex, pc, last_valid_size, repaints,
       scenario, called_after_exit >>

----------------------------------------------------------------------------
\* RenderState::new

SurfaceConfiguration(size) ==
    [ usage |-> "RENDER_ATTACHMENT", format |-> "preferred",
      width |-> size.width, height |-> size.height, present_mode |-> "Fifo" ]

RenderStateNew(size) ==
    [ size |-> size,
      surface_config |-> SurfaceConfiguration(size),
      surface |-> SurfaceConfiguration(size),
      previous_ui_draw_time |-> << >> ]

\* The closure's captured state while one event is handled.
\* shown is the frame time the UI of this invocation displayed, if it ran.
Env(rs, cf, rr) ==
    [ rs |-> rs, control_flow |-> cf, redraw_requested |-> rr, log |-> << >>,
      shown |-> << >> ]

Call(m, name) == [m EXCEPT !.log = Append(@, name)]

----------------------------------------------------------------------------
\* RenderState::resize

resize_ZeroAccepted(m, new_size) ==
    LET cfg == [m.rs.surface_config EXCEPT !.width = new_size.width,
                                           !.height = new_size.height]
    IN  IF new_size.width > 0 \/ new_size.height > 0
        THEN Call([m EXCEPT !.rs.size = new_size,
                            !.rs.surface_config = cfg,
                            !.rs.surface = cfg], "configure")
        ELSE m

resize_NoConfigure(m, new_size) ==
    LET cfg == [m.rs.surface_config EXCEPT !.width = new_size.width,
                                           !.height = new_size.height]
    IN  IF new_size.width > 0 /\ new_size.height > 0
        THEN [m EXCEPT !.rs.size = new_size, !.rs.surface_config = cfg]
        ELSE m

resize_WidthOnly(m, new_size) ==
    LET cfg == [m.rs.surface_config EXCEPT !.width = new_size.width]
    IN  IF new_size.width > 0 /\ new_size.height > 0
        THEN Call([m EXCEPT !.rs.size = new_size,
                            !.rs.surface_config = cfg,
                            !.rs.surface = cfg], "configure")
        ELSE m

resize(m, new_size) ==
    LET cfg == [m.rs.surface_config EXCEPT !.width = new_size.width,
                                           !.height = new_size.height]
    IN  IF new_size.width > 0 /\ new_size.height > 0
        THEN Call([m EXCEPT !.rs.size = new_size,
                            !.rs.surface_config = cfg,
                            !.rs.surface = cfg], "configure")
        ELSE m

\* RenderState::update
update(m) == Call(m, "update_time")

----------------------------------------------------------------------------
\* The UI built between begin_frame and end_frame: it reads
\* previous_ui_draw_time for the frame info and the "Frame time" label.
run_ui(m) == Call([m EXCEPT !.shown = m.rs.previous_ui_draw_time], "run_ui")

\* RenderState::render; r is what get_current_texture returns and d the
\* measured UI build time.  previous_ui_draw_time is << >> for None and
\* << d >> for Some(d).

render_SubmitAnyway(m, r, d) ==
    LET a == Call(m, "get_current_texture")
        b == Call(run_ui(Call(a, "begin_frame")), "end_frame")
        c == [b EXCEPT !.rs.previous_ui_draw_time = << d >>]
    IN  Call(Call(Call(c, "execute"), "submit"), "present")

render_PresentBeforeSubmit(m, r, d) ==
    LET a == Call(m, "get_current_texture")
        b == Call(run_ui(Call(a, "begin_frame")), "end_frame")
        c == [b EXCEPT !.rs.previous_ui_draw_time = << d >>]
    IN  IF r = "Ok" THEN Call(Call(Call(c, "execute"), "present"), "submit")
        ELSE IF r = "Outdated" THEN a
        ELSE Call(a, "eprintln")

render_SilentErrors(m, r, d) ==
    LET a == Call(m, "get_current_texture")
        b == Call(run_ui(Call(a, "begin_frame")), "end_frame")
        c == [b EXCEPT !.rs.previous_ui_draw_time = << d >>]
    IN  IF r = "Ok" THEN Call(Call(Call(c, "execute"), "submit"), "present")
        ELSE a

render_TimeBeforeUi(m, r, d) ==
    LET a == Call(m, "get_current_texture")
        c == [a EXCEPT !.rs.previous_ui_draw_time = << d >>]
        b == Call(run_ui(Call(c, "begin_frame")), "end_frame")
    IN  IF r = "Ok" THEN Call(Call(Call(b, "execute"), "submit"), "present")
        ELSE IF r = "Outdated" THEN a
        ELSE Call(a, "eprintln")

render(m, r, d) ==
    LET a == Call(m, "get_current_texture")
        b == Call(run_ui(Call(a, "begin_frame")), "end_frame")
        c == [b EXCEPT !.rs.previous_ui_draw_time = << d >>]
    IN  IF r = "Ok" THEN Call(Call(Call(c, "execute"), "submit"), "present")
        ELSE IF r = "Outdated" THEN a
        ELSE Call(a, "eprintln")

----------------------------------------------------------------------------
\* The match arm shared by MainEventsCleared and UserEvent(RequestRedraw).

request_redraw_Dropped(m) == m

request_redraw(m) ==
    Call([m EXCEPT !.redraw_requested = TRUE], "request_redraw")

\* The closure passed to event_loop.run.  ev.result and ev.duration are what
\* the GPU and the clock answer during this invocation; time_reset is the
\* assignment time = Instant::now().

run_RenderOnIdle(m, ev) ==
    LET h == Call(m, "handle_event")
    IN  CASE ev.kind = "RedrawRequested" ->
                render(update(Call(h, "time_reset")), ev.result, ev.duration)
          [] ev.kind \in {"MainEventsCleared", "UserEvent"} ->
                render(request_redraw(h), ev.result, ev.duration)
          [] ev.kind = "Resized" -> resize(h, ev.size)
          [] ev.kind = "CloseRequested" -> [h EXCEPT !.control_flow = "Exit"]
          [] OTHER -> h

run_RedrawOnResize(m, ev) ==
    LET h == Call(m, "handle_event")
    IN  CASE ev.kind = "RedrawRequested" ->
                render(update(Call(h, "time_reset")), ev.result, ev.duration)
          [] ev.kind \in {"MainEventsCleared", "UserEvent"} -> request_redraw(h)
          [] ev.kind = "Resized" -> request_redraw(resize(h, ev.size))
          [] ev.kind = "CloseRequested" -> [h EXCEPT !.control_flow = "Exit"]
          [] OTHER -> h

run_ForwardUnhandledOnly(m, ev) ==
    CASE ev.kind = "RedrawRequested" ->
            render(update(Call(m, "time_reset")), ev.result, ev.duration)
      [] ev.kind \in {"MainEventsCleared", "UserEvent"} -> request_redraw(m)
      [] ev.kind = "Resized" -> resize(m, ev.size)
      [] ev.kind = "CloseRequested" -> [m EXCEPT !.control_flow = "Exit"]
      [] OTHER -> Call(m, "handle_event")

run_ExitOnAcquireError(m, ev) ==
    LET h == Call(m, "handle_event")
        x == render(update(Call(h, "time_reset")), ev.result, ev.duration)
    IN  CASE ev.kind = "RedrawRequested" ->
                IF ev.result \in {"Ok", "Outdated"} THEN x
                ELSE [x EXCEPT !.control_flow = "Exit"]
          [] ev.kind \in {"MainEventsCleared", "UserEvent"} -> request_redraw(h)
          [] ev.kind = "Resized" -> resize(h, ev.size)
          [] ev.kind = "CloseRequested" -> [h EXCEPT !.control_flow = "Exit"]
          [] OTHER -> h

run(m, ev) ==
    LET h == Call(m, "handle_event")
    IN  CASE ev.kind = "RedrawRequested" ->
                render(update(Call(h, "time_reset")), ev.result, ev.duration)
          [] ev.kind \in {"MainEventsCleared", "UserEvent"} -> request_redraw(h)
          [] ev.kind = "Resized" -> resize(h, ev.size)
          [] ev.kind = "CloseRequested" -> [h EXCEPT !.control_flow = "Exit"]
          [] OTHER -> h

----------------------------------------------------------------------------
\* Events as the handler receives them.

\* served is history: the sends the event answers (RedrawRequested only);
\* shown is history: the frame time the UI displayed while it was handled.
Ev(kind) ==
    [ kind |-> kind, size |-> NoSize, result |-> "None", duration |-> 0,
      served |-> 0, shown |-> << >> ]

Range(s) == { s[i] : i \in DOMAIN s }

\* The calls on the UI integration and on the GPU surface and queue.
UiCalls == {"handle_event", "update_time", "begin_frame", "run_ui", "end_frame"}

GpuCalls == {"configure", "get_current_texture", "execute", "submit", "present"}

Saturate(n) == IF n < MaxRepaints THEN n + 1 ELSE MaxRepaints

Init ==
    /\ control_flow = "Poll"
    /\ phase = "NewEvents"
    /\ event = Ev("Init")
    /\ calls = << "configure" >>
    /\ redraw_requested = FALSE
    /\ inner_size = PhysicalSize(WIDTH, HEIGHT)
    /\ render_state = RenderStateNew(PhysicalSize(WIDTH, HEIGHT))
    /\ user_events = 0
    /\ mutex = 0
    /\ pc = [t \in Threads |-> "idle"]
    /\ last_valid_size = PhysicalSize(WIDTH, HEIGHT)
    /\ repaints = 0
    /\ scenario = 0
    /\ called_after_exit = FALSE

\* One invocation of the closure with event ev; rr is the window's redraw
\* request as the invocation finds it.
Handle(ev, rr) ==
    LET m == run(Env(render_state, control_flow, rr), ev)
    IN  /\ event' = [ev EXCEPT !.shown = m.shown]
        /\ calls' = m.log
        /\ render_state' = m.rs
        /\ control_flow' = m.control_flow
        /\ redraw_requested' = m.redraw_requested
        /\ called_after_exit' =
               \/ called_after_exit
               \/ /\ control_flow = "Exit"
                  /\ Range(m.log) \cap (UiCalls \cup GpuCalls) # {}

Running == phase # "Done"

\* winit: Event::NewEvents opens an iteration; the loop leaves at the
\* iteration boundary once Exit is set.
NewEvents ==
    /\ phase = "NewEvents"
    /\ control_flow = "Poll"
    /\ phase' = "Events"
    /\ Handle(Ev("NewEvents"), redraw_requested)
    /\ UNCHANGED << inner_size, user_events, mutex, pc, last_valid_size,
                    repaints, scenario >>

\* WindowEvent::Resized(size)
Resized ==
    /\ phase = "Events"
    /\ \E s \in ResizeSizes :
          /\ inner_size' = s
          /\ last_valid_size' =
                 IF s.width > 0 /\ s.height > 0 THEN s ELSE last_valid_size
          /\ scenario' =
                 IF scenario = 0 /\ s = PhysicalSize(0, 600) THEN 1
                 ELSE IF scenario = 1 /\ s = PhysicalSize(800, 600) THEN 2
                 ELSE 5
          /\ Handle([Ev("Resized") EXCEPT !.size = s], redraw_requested)
    /\ UNCHANGED << phase, user_events, mutex, pc, repaints >>

\* WindowEvent::CloseRequested
CloseRequested ==
    /\ phase = "Events"
    /\ Handle(Ev("CloseRequested"), redraw_requested)
    /\ UNCHANGED << phase, inner_size, user_events, mutex, pc, last_valid_size,
                    repaints, scenario >>

\* Any other window or device event (cursor, keyboard, focus, ...).
OtherEvent ==
    /\ phase = "Events"
    /\ Handle(Ev("CursorMoved"), redraw_requested)
    /\ UNCHANGED << phase, inner_size, user_events, mutex, pc, last_valid_size,
                    repaints, scenario >>

\* UserEvent(RedrawEvent::RequestRedraw), taken from the proxy's channel.
UserEvent ==
    /\ phase = "Events"
    /\ user_events > 0
    /\ user_events' = user_events - 1
    /\ Handle(Ev("UserEvent"), redraw_requested)
    /\ UNCHANGED << phase, inner_size, mutex, pc, last_valid_size, repaints,
                    scenario >>

MainEventsCleared ==
    /\ phase = "Events"
    /\ phase' = "Redraw"
    /\ Handle(Ev("MainEventsCleared"), redraw_requested)
    /\ UNCHANGED << inner_size, user_events, mutex, pc, last_valid_size,
                    repaints, scenario >>

\* RedrawRequested: emitted once for all the requests made since the last
\* one; the request is consumed when the event is emitted.  A duration is
\* measured only when the acquire succeeded.
RedrawRequested ==
    /\ phase = "Redraw"
    /\ redraw_requested
    /\ \E r \in AcquireResults :
          \E d \in IF r = "Ok" THEN Durations ELSE {0} :
             Handle([Ev("RedrawRequested") EXCEPT !.result = r, !.duration = d,
                                                  !.served = repaints],
                    FALSE)
    /\ repaints' = 0
    /\ scenario' = IF scenario \in {2, 3} THEN scenario + 1 ELSE scenario
    /\ UNCHANGED << phase, inner_size, user_events, mutex, pc, last_valid_size >>

RedrawEventsCleared ==
    /\ phase = "Redraw"
    /\ ~redraw_requested
    /\ phase' = "NewEvents"
    /\ Handle(Ev("RedrawEventsCleared"), redraw_requested)
    /\ UNCHANGED << inner_size, user_events, mutex, pc, last_valid_size,
                    repaints, scenario >>

\* LoopDestroyed: the last event, delivered once Exit is set.
LoopDestroyed ==
    /\ Running
    /\ control_flow = "Exit"
    /\ phase' = "Done"
    /\ Handle(Ev("LoopDestroyed"), redraw_requested)
    /\ UNCHANGED << inner_size, user_events, mutex, pc, last_valid_size,
                    repaints, scenario >>

----------------------------------------------------------------------------
\* RepaintSignal::request_repaint on thread t:
\* self.0.lock().unwrap().send_event(RedrawEvent::RequestRedraw).ok()

Lock_NoExclusion(t) ==
    /\ pc[t] = "idle"
    /\ user_events < MaxQueue
    /\ mutex' = t
    /\ pc' = [pc EXCEPT ![t] = "locked"]
    /\ UNCHANGED << control_flow, phase, event, calls, redraw_requested,
                    inner_size, render_state, user_events, last_valid_size,
                    repaints, scenario, called_after_exit >>

Lock(t) ==
    /\ pc[t] = "idle"
    /\ mutex = 0
    /\ user_events < MaxQueue
    /\ mutex' = t
    /\ pc' = [pc EXCEPT ![t] = "locked"]
    /\ UNCHANGED << control_flow, phase, event, calls, redraw_requested,
                    inner_size, render_state, user_events, last_valid_size,
                    repaints, scenario, called_after_exit >>

\* send_event fails with EventLoopClosed once the loop is gone; ok() drops
\* the error ("dropped") and the statement goes on to its end.
Send_Unwrap(t) ==
    /\ pc[t] = "locked"
    /\ IF Running
       THEN /\ pc' = [pc EXCEPT ![t] = "sent"]
            /\ user_events' = user_events + 1
            /\ repaints' = Saturate(repaints)
       ELSE /\ pc' = [pc EXCEPT ![t] = "panicked"]
            /\ UNCHANGED << user_events, repaints >>
    /\ UNCHANGED << control_flow, phase, event, calls, redraw_requested,
                    inner_size, render_state, mutex, last_valid_size,
                    scenario, called_after_exit >>

Send(t) ==
    /\ pc[t] = "locked"
    /\ IF Running
       THEN /\ pc' = [pc EXCEPT ![t] = "sent"]
            /\ user_events' = user_events + 1
            /\ repaints' = Saturate(repaints)
       ELSE /\ pc' = [pc EXCEPT ![t] = "dropped"]
            /\ UNCHANGED << user_events, repaints >>
    /\ UNCHANGED << control_flow, phase, event, calls, redraw_requested,
                    inner_size, render_state, mutex, last_valid_size,
                    scenario, called_after_exit >>

\* The MutexGuard temporary is dropped at the end of the statement.
Unlock(t) ==
    /\ pc[t] \in {"sent", "dropped"}
    /\ pc' = [pc EXCEPT ![t] = "idle"]
    /\ mutex' = IF mutex = t THEN 0 ELSE mutex
    /\ UNCHANGED << control_flow, phase, event, calls, redraw_requested,
                    inner_size, render_state, user_events, last_valid_size,
                    repaints, scenario, called_after_exit >>

----------------------------------------------------------------------------
Loop ==
    \/ NewEvents
    \/ Resized
    \/ CloseRequested
    \/ OtherEvent
    \/ UserEvent
    \/ MainEventsCleared
    \/ RedrawRequested
    \/ RedrawEventsCleared
    \/ LoopDestroyed

Next ==
    \/ NewEvents
    \/ Resized
    \/ CloseRequested
    \/ OtherEvent
    \/ UserEvent
    \/ MainEventsCleared
    \/ RedrawRequested
    \/ RedrawEventsCleared
    \/ LoopDestroyed
    \/ \E t \in Threads : Lock(t)
    \/ \E t \in Threads : Send(t)
    \/ \E t \in Threads : Unlock(t)

Spec == Init /\ [][Next]_vars

\* The events winit emits by itself in every iteration.
Progress ==
    \/ NewEvents
    \/ MainEventsCleared
    \/ RedrawRequested
    \/ RedrawEventsCleared
    \/ LoopDestroyed

\* The event loop owns its thread and always goes on: it drains the events
\* of an iteration and emits the iteration's own events in order.
FairSpec == Spec /\ WF_vars(Progress)

----------------------------------------------------------------------------
\* Vocabulary of the properties.

Count(s, x) == Cardinality({ i \in DOMAIN s : s[i] = x })

Dims(c) == PhysicalSize(c.width, c.height)

Positive(s) == s.width > 0 /\ s.height > 0

RenderCalls ==
    { "get_current_texture", "begin_frame", "run_ui", "end_frame", "execute",
      "submit", "present" }

FailedAcquire == event.kind = "RedrawRequested" /\ event.result # "Ok"

----------------------------------------------------------------------------
\* C1: every RedrawRequested event runs exactly one begin_frame and one
\* end_frame, also when the frame acquire fails.
C1_OneBeginEndPerRedraw ==
    event.kind = "RedrawRequested" =>
        Count(calls, "begin_frame") = 1 /\ Count(calls, "end_frame") = 1

\* C2: resize with a zero width or height changes neither the stored size,
\* nor the stored configuration, nor the configuration applied to the surface,
\* and does not configure the surface.
C2_ZeroResizeIsNoOp ==
    [][ (event'.kind = "Resized" /\ ~Positive(event'.size)) =>
            /\ render_state' = render_state
            /\ "configure" \notin Range(calls') ]_vars

C2_Witness ==
    /\ event.kind = "Resized"
    /\ event.size = PhysicalSize(0, 600)
    /\ inner_size = PhysicalSize(0, 600)
    /\ render_state.size = PhysicalSize(WIDTH, HEIGHT)

\* C3: whenever a frame is acquired, the configuration applied to the surface
\* has the size of the last Resized event with both dimensions > 0, or the
\* startup size; after 1280x720, 0x600, 800x600 the acquires run under 800x600.
C3_AcquireUnderLastValidSize ==
    /\ ((phase = "Redraw" /\ redraw_requested) \/ event.kind = "RedrawRequested")
           => Dims(render_state.surface) = last_valid_size
    /\ (scenario \in {3, 4} /\ event.kind = "RedrawRequested")
           => Dims(render_state.surface) = PhysicalSize(800, 600)

C3_Witness ==
    /\ scenario = 4
    /\ event.kind = "RedrawRequested"
    /\ event.result = "Ok"
    /\ Dims(render_state.surface) = PhysicalSize(800, 600)

\* C4 as claimed: while the loop runs, the surface configuration has the size
\* the window last reported.
C4_ConfigMatchesWindow ==
    Running => Dims(render_state.surface_config) = inner_size

\* C4 as amended: while the loop runs, the surface configuration has the size
\* the window last reported if both its dimensions are > 0, and otherwise the
\* last reported size that had both dimensions > 0.
C4_ConfigMatchesValidWindow ==
    Running =>
        Dims(render_state.surface_config) =
            IF Positive(inner_size) THEN inner_size ELSE last_valid_size

C4_Witness ==
    /\ event.kind = "RedrawRequested"
    /\ inner_size = PhysicalSize(800, 600)
    /\ Dims(render_state.surface_config) = PhysicalSize(800, 600)

\* C5: once CloseRequested has been handled, the handler makes no UI call and
\* no GPU call any more.
C5_NoCallsAfterClose ==
    ~called_after_exit

\* C6 as claimed: one RedrawRequested event per request_repaint, so no
\* RedrawRequested event answers more than one request.
C6_OneRedrawPerRequest ==
    event.kind = "RedrawRequested" => event.served <= 1

\* C6 as amended: after a request_repaint whose send succeeded, the loop
\* eventually handles a RedrawRequested event, unless close is requested.
C6_RequestEventuallyRedrawn ==
    (repaints >= 1) ~> (repaints = 0 \/ control_flow = "Exit")

C6_Witness ==
    /\ event.kind = "RedrawRequested"
    /\ event.served = 1
    /\ control_flow = "Poll"

\* C7: after two request_repaint calls with no RedrawRequested event between
\* them, the loop eventually handles a RedrawRequested event, unless close is
\* requested.
C7_TwoRequestsRedrawnOnce ==
    (repaints >= 2) ~> (repaints = 0 \/ control_flow = "Exit")

C7_Witness ==
    /\ event.kind = "RedrawRequested"
    /\ event.served >= 2
    /\ control_flow = "Poll"

\* C8: a failed acquire submits and presents nothing, leaves the control flow
\* and the render state (the surface configuration with it) as they were, and
\* unless close is requested the next MainEventsCleared requests a redraw and
\* the RedrawRequested event that follows attempts the acquire again.
C8_FailedAcquireSkipsFrame ==
    /\ [](FailedAcquire =>
             /\ Range(calls) \cap {"submit", "present"} = {}
             /\ Count(calls, "get_current_texture") = 1)
    /\ [][ (redraw_requested /\ ~redraw_requested' /\ event'.result # "Ok") =>
               /\ control_flow' = control_flow
               /\ render_state' = render_state ]_vars
    /\ (FailedAcquire /\ control_flow = "Poll")
           ~> (control_flow = "Exit"
               \/ (event.kind = "MainEventsCleared" /\ redraw_requested))
    /\ (event.kind = "MainEventsCleared" /\ redraw_requested)
           ~> (control_flow = "Exit"
               \/ (event.kind = "RedrawRequested"
                   /\ Count(calls, "get_current_texture") = 1))

C8_Witness ==
    /\ FailedAcquire
    /\ event.result = "Outdated"
    /\ control_flow = "Poll"
    /\ calls = << "handle_event", "time_reset", "update_time",
                 "get_current_texture" >>

\* C9: at most one thread is inside the locked send, the loop can always
\* dispatch whoever holds the lock, and every send made while the loop runs
\* adds one RequestRedraw event to the channel.
C9_SendUnderMutex ==
    /\ [](Cardinality({ t \in Threads : pc[t] # "idle" }) <= 1)
    /\ []((Running /\ mutex # 0) => ENABLED Loop)
    /\ [][ \A t \in Threads :
              (pc[t] = "locked" /\ pc'[t] = "sent" /\ Running) =>
                  user_events' = user_events + 1 ]_vars

C9_Witness ==
    \E t \in Threads :
        /\ pc[t] = "sent"
        /\ mutex = t
        /\ user_events = 2
        /\ Running

\* C10: only the RedrawRequested handler acquires, begins or ends a UI frame,
\* submits or presents; MainEventsCleared and the RequestRedraw user event
\* request a redraw from the window and change nothing else.
C10_RenderOnlyOnRedraw ==
    /\ [](event.kind # "RedrawRequested" => Range(calls) \cap RenderCalls = {})
    /\ [](event.kind \in {"MainEventsCleared", "UserEvent"} =>
             /\ calls = << "handle_event", "request_redraw" >>
             /\ redraw_requested)
    /\ [][ event'.kind \in {"MainEventsCleared", "UserEvent"} =>
               /\ render_state' = render_state
               /\ control_flow' = control_flow ]_vars

C10_Witness ==
    /\ event.kind = "UserEvent"
    /\ calls = << "handle_event", "request_redraw" >>
    /\ redraw_requested

----------------------------------------------------------------------------
\* The place of the first call named x in the calls s.
Pos(s, x) == CHOOSE i \in DOMAIN s : s[i] = x /\ \A j \in 1..(i - 1) : s[j] # x

RenderedFrame == event.kind = "RedrawRequested" /\ event.result = "Ok"

\* C11: the Resized handler passes the size to resize and neither requests a
\* redraw nor renders; a redraw request is only ever made by MainEventsCleared
\* or the RequestRedraw user event, and unless close is requested one of them
\* makes it after every resize.
C11_ResizeDefersRedraw ==
    /\ [](event.kind = "Resized" =>
             /\ calls = IF Positive(event.size)
                        THEN << "handle_event", "configure" >>
                        ELSE << "handle_event" >>
             /\ Positive(event.size) => render_state.size = event.size)
    /\ [][ event'.kind = "Resized" => redraw_requested' = redraw_requested ]_vars
    /\ [][ (~redraw_requested /\ redraw_requested') =>
               event'.kind \in {"MainEventsCleared", "UserEvent"} ]_vars
    /\ (event.kind = "Resized" /\ control_flow = "Poll")
           ~> (control_flow = "Exit"
               \/ (event.kind \in {"MainEventsCleared", "UserEvent"}
                   /\ redraw_requested))

C11_Witness ==
    /\ event.kind = "Resized"
    /\ event.size = PhysicalSize(800, 600)
    /\ render_state.size = PhysicalSize(800, 600)
    /\ ~redraw_requested
    /\ control_flow = "Poll"

\* C12: every event the handler receives, of whatever kind, is passed to
\* handle_event exactly once, before anything else is done with it.
C12_EveryEventForwarded ==
    event.kind # "Init" =>
        /\ Count(calls, "handle_event") = 1
        /\ calls[1] = "handle_event"

C12_Witness ==
    /\ event.kind = "RedrawRequested"
    /\ event.result = "Lost"
    /\ calls[1] = "handle_event"
    /\ Count(calls, "handle_event") = 1

\* C13: one handler invocation acquires at most once; a frame that was
\* acquired is presented once, after the submit, as the last call of the same
\* invocation, so no frame is held when the invocation returns; without an
\* acquired frame nothing is submitted or presented.
C13_FramePresentedInSameRedraw ==
    /\ Count(calls, "get_current_texture") <= 1
    /\ RenderedFrame =>
           /\ Count(calls, "get_current_texture") = 1
           /\ Count(calls, "submit") = 1
           /\ Count(calls, "present") = 1
           /\ Pos(calls, "get_current_texture") < Pos(calls, "submit")
           /\ Pos(calls, "submit") < Pos(calls, "present")
           /\ Pos(calls, "present") = Len(calls)
    /\ ~RenderedFrame =>
           Range(calls) \cap {"submit", "present"} = {}

C13_Witness ==
    /\ RenderedFrame
    /\ calls[Len(calls)] = "present"
    /\ calls[Len(calls) - 1] = "submit"

\* The ScreenDescriptor render builds for the rasterizer.
ScreenDescriptor(rs) ==
    PhysicalSize(rs.surface_config.width, rs.surface_config.height)

\* C14: a rendered frame runs begin_frame, the UI callback (once), end_frame,
\* the frame acquire, the rasterization, the submit and the present, in this
\* order.
C14_UiFrameBeforeAcquire ==
    RenderedFrame =>
        /\ Count(calls, "run_ui") = 1
        /\ Pos(calls, "begin_frame") < Pos(calls, "run_ui")
        /\ Pos(calls, "run_ui") < Pos(calls, "end_frame")
        /\ Pos(calls, "end_frame") < Pos(calls, "get_current_texture")
        /\ Pos(calls, "get_current_texture") < Pos(calls, "execute")
        /\ Pos(calls, "execute") < Pos(calls, "submit")
        /\ Pos(calls, "submit") < Pos(calls, "present")

\* C15 as claimed: every failed acquire writes a message to the error stream.
C15_EveryFailureLogged ==
    FailedAcquire => "eprintln" \in Range(calls)

\* C15 as amended: a failed acquire writes one message to the error stream,
\* as its last call, unless the error is Outdated, which is skipped silently.
C15_OtherFailuresLogged ==
    FailedAcquire =>
        IF event.result = "Outdated"
        THEN "eprintln" \notin Range(calls)
        ELSE Count(calls, "eprintln") = 1 /\ calls[Len(calls)] = "eprintln"

C15_Witness ==
    /\ FailedAcquire
    /\ event.result = "Timeout"
    /\ calls[Len(calls)] = "eprintln"

\* C16: the control flow only ever changes to Exit, and only in the
\* CloseRequested handler; the loop ends only after that; while the control
\* flow is Poll every MainEventsCleared requests a redraw.
C16_OnlyCloseExits ==
    /\ [][ control_flow' # control_flow =>
               control_flow' = "Exit" /\ event'.kind = "CloseRequested" ]_vars
    /\ [](~Running => control_flow = "Exit")
    /\ []((event.kind = "MainEventsCleared" /\ control_flow = "Poll") =>
              "request_redraw" \in Range(calls) /\ redraw_requested)

C16_Witness ==
    /\ event.kind = "CloseRequested"
    /\ control_flow = "Exit"
    /\ Running

\* C17: previous_ui_draw_time changes only in a redraw whose acquire
\* succeeded, which sets it to the duration it measured after its UI has shown
\* the value left by the previous rendered frame (none before the first);
\* a redraw whose acquire failed leaves it alone; every RedrawRequested event
\* resets the previous-frame timestamp once.
C17_TimingPerRenderedFrame ==
    /\ [][ render_state'.previous_ui_draw_time # render_state.previous_ui_draw_time
               => event'.kind = "RedrawRequested" /\ event'.result = "Ok" ]_vars
    /\ [][ (redraw_requested /\ ~redraw_requested') =>
               IF event'.result = "Ok"
               THEN /\ render_state'.previous_ui_draw_time = << event'.duration >>
                    /\ event'.shown = render_state.previous_ui_draw_time
               ELSE render_state'.previous_ui_draw_time =
                        render_state.previous_ui_draw_time ]_vars
    /\ [](event.kind = "RedrawRequested" => Count(calls, "time_reset") = 1)

C17_Witness ==
    /\ RenderedFrame
    /\ event.shown = << 1 >>
    /\ render_state.previous_ui_draw_time = << 2 >>

\* C18: the stored size is the size of the stored configuration, both
\* dimensions are > 0, the configuration applied to the surface is the stored
\* one, and so the screen descriptor has the size the frame is acquired under.
C18_SizeConfigSurfaceAgree ==
    /\ render_state.size = Dims(render_state.surface_config)
    /\ Positive(render_state.size)
    /\ render_state.surface = render_state.surface_config
    /\ ScreenDescriptor(render_state) = Dims(render_state.surface)

C18_Witness ==
    /\ RenderedFrame
    /\ inner_size = PhysicalSize(800, 0)
    /\ render_state.size = PhysicalSize(800, 600)
    /\ render_state.surface = render_state.surface_config

\* C19: a send that fails because the loop is gone is dropped: the caller
\* does not panic, can go on to release the lock and releases it, and the
\* loop's state, the channel included, stays as it was.
C19_FailedSendDropped ==
    /\ [](\A t \in Threads : pc[t] \in {"idle", "locked", "sent", "dropped"})
    /\ [](\A t \in Threads : pc[t] = "dropped" => ~Running /\ ENABLED Unlock(t))
    /\ [][ \A t \in Threads :
              (pc[t] = "dropped" /\ pc'[t] = "idle") => mutex' = 0 ]_vars
    /\ [][ ~Running =>
               UNCHANGED << control_flow, phase, event, calls, redraw_requested,
                            inner_size, render_state, user_events >> ]_vars

C19_Witness ==
    \E t \in Threads :
        /\ pc[t] = "dropped"
        /\ mutex = t
        /\ ~Running

====
